---------------------------- MODULE Spec2Model ----------------------------
(***************************************************************************)
(* EDIFACT PRICAT generator (src/update2/pricat.py): the validate-then-    *)
(* encode pipeline, its price normaliser, its text escaper and the file    *)
(* persistence of generate_pricat.                                         *)
(*                                                                         *)
(* Text is a sequence of tokens.  A character of input data is a token of  *)
(* one character; the literal chunk of an f-string ("UNH+", "::91") is one *)
(* token.  No literal chunk holds the terminator ' except the token "'"    *)
(* itself.  A Python value is a record Val with a type tag; a dict is a    *)
(* function from its keys to values.  decimal.Decimal is a sign, a         *)
(* coefficient as a sequence of digits, and an exponent, with the default  *)
(* context (28 significant digits, ROUND_HALF_EVEN).                       *)
(***************************************************************************)
EXTENDS Integers, Sequences, FiniteSets, TLC

(***************************************************************************)
(* Bounds of the model.                                                    *)
(***************************************************************************)
MaxItems == 2
MaxParties == 2

(***************************************************************************)
(* Python values.                                                          *)
(***************************************************************************)
\* F applied to the value of e, which is evaluated once (a local variable)
Bind(e, F(_)) == CHOOSE r \in {F(x) : x \in {e}} : TRUE

EmptyDict == <<>>

Str(s) == [ty |-> "str", s |-> s, n |-> 0, l |-> <<>>, d |-> EmptyDict]

Int_(n) == [ty |-> "int", s |-> <<>>, n |-> n, l |-> <<>>, d |-> EmptyDict]

List(l) == [ty |-> "list", s |-> <<>>, n |-> 0, l |-> l, d |-> EmptyDict]

Dict(d) == [ty |-> "dict", s |-> <<>>, n |-> 0, l |-> <<>>, d |-> d]

None == [ty |-> "none", s |-> <<>>, n |-> 0, l |-> <<>>, d |-> EmptyDict]

DigitChar == <<"0", "1", "2", "3", "4", "5", "6", "7", "8", "9">>

DigitChars == {DigitChar[i] : i \in 1..10}

DigitVal(c) == CHOOSE v \in 0..9 : DigitChar[v + 1] = c

RECURSIVE NatStr(_)
NatStr(n) == IF n < 10 THEN <<DigitChar[n + 1]>>
             ELSE NatStr(n \div 10) \o <<DigitChar[(n % 10) + 1]>>

IntStr(n) == IF n < 0 THEN <<"-">> \o NatStr(-n) ELSE NatStr(n)

\* str(v), and the text an f-string interpolates for v
PyStr(v) ==
    CASE v.ty = "str" -> v.s
      [] v.ty = "int" -> IntStr(v.n)
      [] v.ty = "none" -> <<"None">>
      [] v.ty = "list" -> <<"[...]">>
      [] OTHER -> <<"{...}">>

\* bool(v) for the values of the model
Truthy(v) ==
    CASE v.ty = "str" -> v.s # <<>>
      [] v.ty = "int" -> v.n # 0
      [] v.ty = "none" -> FALSE
      [] v.ty = "list" -> v.l # <<>>
      [] OTHER -> DOMAIN v.d # {}

(***************************************************************************)
(* decimal.Decimal under the default context.                              *)
(***************************************************************************)
PREC == 28

Fin(sign, digits, exp) == [kind |-> "fin", sign |-> sign, digits |-> digits, exp |-> exp]

NaN == [kind |-> "nan", sign |-> 0, digits |-> <<>>, exp |-> 0]

Infinity == [kind |-> "inf", sign |-> 0, digits |-> <<>>, exp |-> 0]

\* the outcome of an operation that signals InvalidOperation
InvalidOp == [kind |-> "invalid", sign |-> 0, digits |-> <<>>, exp |-> 0]

NoDec == [kind |-> "none", sign |-> 0, digits |-> <<>>, exp |-> 0]

RECURSIVE StripZeros(_)
StripZeros(ds) ==
    IF ds = <<>> THEN <<0>>
    ELSE IF Head(ds) = 0 /\ Len(ds) > 1 THEN StripZeros(Tail(ds))
    ELSE ds

Zeros(k) == [i \in 1..k |-> 0]

IsZero(d) == d.digits = <<0>>

RECURSIVE IncDigits(_)
IncDigits(ds) ==
    IF ds = <<>> THEN <<1>>
    ELSE LET n == Len(ds) IN
         IF ds[n] < 9 THEN [ds EXCEPT ![n] = ds[n] + 1]
         ELSE IncDigits(SubSeq(ds, 1, n - 1)) \o <<0>>

RECURSIVE AddAligned(_, _, _)
AddAligned(a, b, carry) ==
    IF a = <<>> THEN (IF carry = 1 THEN <<1>> ELSE <<>>)
    ELSE LET n == Len(a)
             s == a[n] + b[n] + carry
         IN AddAligned(SubSeq(a, 1, n - 1), SubSeq(b, 1, n - 1), s \div 10) \o <<s % 10>>

\* the sum of two coefficients given as digit sequences
AddDigits(a, b) ==
    LET n == IF Len(a) > Len(b) THEN Len(a) ELSE Len(b)
    IN StripZeros(AddAligned(Zeros(n - Len(a)) \o a, Zeros(n - Len(b)) \o b, 0))

AllDigits(cs) == \A i \in 1..Len(cs) : cs[i] \in DigitChars

\* the index of the first token of cs in set S, or 0
FirstIn(cs, S) ==
    IF \E i \in 1..Len(cs) : cs[i] \in S
    THEN CHOOSE i \in 1..Len(cs) : cs[i] \in S /\ \A j \in 1..(i - 1) : cs[j] \notin S
    ELSE 0

RECURSIVE DigitsToNat(_)
DigitsToNat(cs) ==
    IF cs = <<>> THEN 0
    ELSE DigitsToNat(SubSeq(cs, 1, Len(cs) - 1)) * 10 + DigitVal(cs[Len(cs)])

\* Decimal(text): [sign] digits [. digits] [e [sign] digits], NaN, Infinity;
\* anything else signals InvalidOperation (ConversionSyntax)
ParseDecimal(cs) ==
    LET signed == cs # <<>> /\ Head(cs) \in {"+", "-"}
        sign == IF signed /\ Head(cs) = "-" THEN 1 ELSE 0
        body == IF signed THEN Tail(cs) ELSE cs
        e == FirstIn(body, {"e", "E"})
        mant == IF e = 0 THEN body ELSE SubSeq(body, 1, e - 1)
        expo == IF e = 0 THEN <<>> ELSE SubSeq(body, e + 1, Len(body))
        esigned == expo # <<>> /\ Head(expo) \in {"+", "-"}
        edigits == IF esigned THEN Tail(expo) ELSE expo
        dot == FirstIn(mant, {"."})
        ip == IF dot = 0 THEN mant ELSE SubSeq(mant, 1, dot - 1)
        fp == IF dot = 0 THEN <<>> ELSE SubSeq(mant, dot + 1, Len(mant))
        eval == IF e = 0 THEN 0
                ELSE IF esigned /\ Head(expo) = "-" THEN -DigitsToNat(edigits)
                ELSE DigitsToNat(edigits)
    IN IF body \in {<<"N", "a", "N">>, <<"n", "a", "n">>} THEN [NaN EXCEPT !.sign = sign]
       ELSE IF body \in {<<"I", "n", "f", "i", "n", "i", "t", "y">>, <<"I", "n", "f">>}
       THEN [Infinity EXCEPT !.sign = sign]
       ELSE IF /\ AllDigits(ip) /\ AllDigits(fp) /\ Len(ip) + Len(fp) >= 1
               /\ (e # 0 => edigits # <<>> /\ AllDigits(edigits))
       THEN Fin(sign, StripZeros([i \in 1..(Len(ip) + Len(fp)) |-> DigitVal((ip \o fp)[i])]),
                eval - Len(fp))
       ELSE InvalidOp

\* Decimal._rescale(-2, ROUND_HALF_UP)
RescaleHalfUp(d) ==
    IF IsZero(d) THEN Fin(d.sign, <<0>>, -2)
    ELSE IF d.exp >= -2 THEN Fin(d.sign, d.digits \o Zeros(d.exp + 2), -2)
    ELSE LET keep == Len(d.digits) + d.exp + 2
         IN IF keep < 0 THEN Fin(d.sign, <<0>>, -2)
            ELSE LET kept == SubSeq(d.digits, 1, keep)
                     up == d.digits[keep + 1] >= 5
                 IN Fin(d.sign,
                        IF up THEN IncDigits(kept) ELSE StripZeros(kept),
                        -2)

\* d.quantize(Decimal("0.01"), rounding=ROUND_HALF_UP)
QuantizeHalfUp(d) ==
    CASE d.kind = "nan" -> d
      [] d.kind = "inf" -> InvalidOp
      [] d.kind = "invalid" -> InvalidOp
      [] OTHER ->
           IF IsZero(d) THEN Fin(d.sign, <<0>>, -2)
           ELSE IF Len(d.digits) + d.exp + 2 > PREC THEN InvalidOp
           ELSE LET r == RescaleHalfUp(d)
                IN IF Len(r.digits) > PREC THEN InvalidOp ELSE r

\* Decimal._fix: round the coefficient to PREC digits, ROUND_HALF_EVEN
RECURSIVE Fix(_)
Fix(d) ==
    IF Len(d.digits) <= PREC THEN d
    ELSE LET kept == SubSeq(d.digits, 1, PREC)
             rest == SubSeq(d.digits, PREC + 1, Len(d.digits))
             half == <<5>> \o Zeros(Len(rest) - 1)
             above == \E i \in 1..Len(rest) :
                         /\ rest[i] > half[i]
                         /\ \A j \in 1..(i - 1) : rest[j] = half[j]
             up == above \/ (rest = half /\ kept[PREC] % 2 = 1)
         IN Fix(Fin(d.sign, IF up THEN IncDigits(kept) ELSE kept, d.exp + Len(rest)))

\* a + b for a >= 0 and b >= 0 or b = -0 (the running total and an accepted price)
DecAdd(a, b) ==
    LET e == IF a.exp < b.exp THEN a.exp ELSE b.exp
        da == a.digits \o Zeros(a.exp - e)
        db == b.digits \o Zeros(b.exp - e)
    IN Fix(Fin(0, AddDigits(da, db), e))

\* d < 0; comparing a NaN signals InvalidOperation
IsNegative(d) == d.sign = 1 /\ ~IsZero(d)

\* f"{d:.2f}" of a finite Decimal whose exponent is >= -2
Format2f(d) ==
    LET ds == d.digits \o Zeros(d.exp + 2)
        n == Len(ds)
        ip == IF n > 2 THEN SubSeq(ds, 1, n - 2) ELSE <<0>>
        fp == IF n >= 2 THEN SubSeq(ds, n - 1, n) ELSE <<0>> \o ds
    IN (IF d.sign = 1 THEN <<"-">> ELSE <<>>)
       \o [i \in 1..Len(ip) |-> DigitChar[ip[i] + 1]]
       \o <<".">>
       \o [i \in 1..2 |-> DigitChar[fp[i] + 1]]

(***************************************************************************)
(* Outcomes: a return value or a raised exception.                         *)
(***************************************************************************)
Outcome(exc, msg) ==
    [exc |-> exc, msg |-> msg, dec |-> NoDec, text |-> <<>>,
     segments |-> <<>>, total |-> NoDec, item_count |-> 0, log |-> <<>>]

Raise(exc, msg) == Outcome(exc, msg)

Returned == Outcome("none", <<>>)

(***************************************************************************)
(* escape_edifact and validate_price.                                      *)
(***************************************************************************)
RECURSIVE Replace(_, _, _)
Replace(text, old, new) ==
    IF text = <<>> THEN <<>>
    ELSE (IF Head(text) = old THEN new ELSE <<Head(text)>>) \o Replace(Tail(text), old, new)

escape_edifact(text) == Replace(text, "'", <<"?", "+">>)

\* the try block: price_decimal, then the sign check; InvalidOperation from
\* the conversion, the quantize or the comparison of a NaN is caught
\* a variant of the checks after the quantize in which the negative price
\* is reported with the message of the non-numeric input
PriceCheckedSameMessage(price, price_decimal) ==
    IF price_decimal.kind # "fin" \/ IsNegative(price_decimal)
    THEN Raise("PRICATValidationError", <<"Invalid price value: ">> \o PyStr(price))
    ELSE [Returned EXCEPT !.dec = price_decimal]

PriceChecked(price, price_decimal) ==
    IF price_decimal.kind # "fin"
    THEN Raise("PRICATValidationError", <<"Invalid price value: ">> \o PyStr(price))
    ELSE IF IsNegative(price_decimal)
    THEN Raise("PRICATValidationError", <<"Price cannot be negative">>)
    ELSE [Returned EXCEPT !.dec = price_decimal]

validate_price(price) ==
    Bind(QuantizeHalfUp(ParseDecimal(PyStr(price))),
         LAMBDA price_decimal : PriceChecked(price, price_decimal))

(***************************************************************************)
(* Constants of the program.                                               *)
(***************************************************************************)
UNA_SEGMENT == <<"UNA:+.? ", "'">>

VALID_CURRENCIES == {<<"E", "U", "R">>, <<"U", "S", "D">>, <<"G", "B", "P">>, <<"J", "P", "Y">>}

VALID_QUALIFIERS == {<<"B", "Y">>, <<"S", "U">>, <<"S", "E">>}

\* the dict required_fields of validate_data, in insertion order
required_fields ==
    << [field |-> "message_ref", type |-> "str"],
       [field |-> "doc_code", type |-> "str"],
       [field |-> "doc_number", type |-> "str"],
       [field |-> "parties", type |-> "list"],
       [field |-> "items", type |-> "list"],
       [field |-> "edifact_version", type |-> "str"] >>

(***************************************************************************)
(* dict and str operations.                                                *)
(***************************************************************************)
Has(v, k) == k \in DOMAIN v.d

DictGet(v, k, default) == IF Has(v, k) THEN v.d[k] ELSE default

\* x in v, for a key x: a dict has keys, a str or a list holds no key of the
\* model, any other value is not iterable (TypeError)
Contains(v, k) == v.ty = "dict" /\ Has(v, k)

Iterable(v) == v.ty \in {"dict", "str", "list"}

\* v[k] succeeds on a dict that has k; "KeyError" on a dict that lacks it,
\* "TypeError" on any other value
Subscript(v, k) ==
    IF v.ty # "dict" THEN "TypeError" ELSE IF Has(v, k) THEN "none" ELSE "KeyError"

Hashable(v) == v.ty \notin {"list", "dict"}

LowerCase == <<"a", "b", "c", "d", "e", "f", "g", "h", "i", "j", "k", "l", "m",
               "n", "o", "p", "q", "r", "s", "t", "u", "v", "w", "x", "y", "z">>

UpperCase == <<"A", "B", "C", "D", "E", "F", "G", "H", "I", "J", "K", "L", "M",
               "N", "O", "P", "Q", "R", "S", "T", "U", "V", "W", "X", "Y", "Z">>

UpperChar(c) ==
    IF \E i \in 1..26 : LowerCase[i] = c
    THEN UpperCase[CHOOSE i \in 1..26 : LowerCase[i] = c]
    ELSE c

\* text.upper()
Upper(text) == [i \in 1..Len(text) |-> UpperChar(text[i])]

IsUpperLetter(c) == \E i \in 1..26 : UpperCase[i] = c

\* re.match(r"^[A-Z]:\d{2}[A-Z]:UN$", text): $ also matches before a final newline
VersionMatches(text) ==
    /\ Len(text) = 8 \/ (Len(text) = 9 /\ text[9] = "\n")
    /\ IsUpperLetter(text[1])
    /\ text[2] = ":"
    /\ text[3] \in DigitChars
    /\ text[4] \in DigitChars
    /\ IsUpperLetter(text[5])
    /\ text[6] = ":"
    /\ text[7] = "U"
    /\ text[8] = "N"

(***************************************************************************)
(* validate_data.                                                          *)
(***************************************************************************)
PVE == "PRICATValidationError"

\* statement r, then statement next unless r raised
Then(r, next) == IF r.exc # "none" THEN r ELSE next

RECURSIVE CheckRequired(_, _)
CheckRequired(data, i) ==
    IF i > Len(required_fields) THEN Returned
    ELSE LET f == required_fields[i].field
             t == required_fields[i].type
         IN IF ~Has(data, f) THEN Raise(PVE, <<"Missing required field: ", f>>)
            ELSE IF data.d[f].ty # t THEN Raise(PVE, <<"Field ", f, " must be ", t>>)
            ELSE IF t = "list" /\ ~Truthy(data.d[f])
            THEN Raise(PVE, <<"Field ", f, " cannot be empty">>)
            ELSE CheckRequired(data, i + 1)

CheckVersion(data) ==
    IF VersionMatches(Upper(data.d["edifact_version"].s)) THEN Returned
    ELSE Raise(PVE, <<"Invalid EDIFACT version format">>)

CheckCurrency(data) ==
    LET currency == DictGet(data, "currency", Str(<<"E", "U", "R">>))
    IN IF ~Hashable(currency) THEN Raise("TypeError", <<"unhashable type">>)
       ELSE IF currency.ty = "str" /\ currency.s \in VALID_CURRENCIES THEN Returned
       ELSE Raise(PVE, <<"Invalid currency code: ">> \o PyStr(currency)
                        \o <<". Must be one of ", "{valid_currencies}">>)

CheckParty(party) ==
    IF ~Iterable(party) THEN Raise("TypeError", <<"argument is not iterable">>)
    ELSE IF ~(Contains(party, "qualifier") /\ Contains(party, "id"))
    THEN Raise(PVE, <<"Each party must have 'qualifier' and 'id'">>)
    ELSE IF ~Hashable(party.d["qualifier"]) THEN Raise("TypeError", <<"unhashable type">>)
    ELSE IF ~(party.d["qualifier"].ty = "str" /\ party.d["qualifier"].s \in VALID_QUALIFIERS)
    THEN Raise(PVE, <<"Invalid party qualifier: ">> \o PyStr(party.d["qualifier"]))
    ELSE IF ~(party.d["id"].ty = "str" /\ Truthy(party.d["id"]))
    THEN Raise(PVE, <<"Party ID must be a non-empty string">>)
    ELSE Returned

\* a variant of the checks of one item in which the price is not validated
CheckItemPriceUnchecked(item) ==
    IF ~Iterable(item) THEN Raise("TypeError", <<"argument is not iterable">>)
    ELSE IF ~(Contains(item, "product_code") /\ Contains(item, "description")
              /\ Contains(item, "price"))
    THEN Raise(PVE, <<"Each item requires product_code, description, and price">>)
    ELSE IF ~(item.d["product_code"].ty = "str" /\ Truthy(item.d["product_code"]))
    THEN Raise(PVE, <<"Product code must be a non-empty string">>)
    ELSE IF ~(item.d["description"].ty = "str" /\ Truthy(item.d["description"]))
    THEN Raise(PVE, <<"Description must be a non-empty string">>)
    ELSE IF Has(item, "quantity")
            /\ ~(item.d["quantity"].ty = "int" /\ item.d["quantity"].n > 0)
    THEN Raise(PVE, <<"Quantity must be a positive number">>)
    ELSE Returned

CheckItem(item) ==
    IF ~Iterable(item) THEN Raise("TypeError", <<"argument is not iterable">>)
    ELSE IF ~(Contains(item, "product_code") /\ Contains(item, "description")
              /\ Contains(item, "price"))
    THEN Raise(PVE, <<"Each item requires product_code, description, and price">>)
    ELSE IF ~(item.d["product_code"].ty = "str" /\ Truthy(item.d["product_code"]))
    THEN Raise(PVE, <<"Product code must be a non-empty string">>)
    ELSE IF ~(item.d["description"].ty = "str" /\ Truthy(item.d["description"]))
    THEN Raise(PVE, <<"Description must be a non-empty string">>)
    ELSE Then(validate_price(item.d["price"]),
              IF Has(item, "quantity")
                 /\ ~(item.d["quantity"].ty = "int" /\ item.d["quantity"].n > 0)
              THEN Raise(PVE, <<"Quantity must be a positive number">>)
              ELSE Returned)

\* the first failure of check over the elements of list, in order
RECURSIVE CheckParties(_, _)
CheckParties(list, i) ==
    IF i > Len(list) THEN Returned
    ELSE Then(CheckParty(list[i]), CheckParties(list, i + 1))

RECURSIVE CheckItems(_, _)
CheckItems(list, i) ==
    IF i > Len(list) THEN Returned
    ELSE Then(CheckItem(list[i]), CheckItems(list, i + 1))

\* a variant of validate_data in which the items loop runs before the
\* parties loop
validate_dataItemsFirst(data) ==
    IF ~Iterable(data) THEN Raise("TypeError", <<"argument is not iterable">>)
    ELSE Then(CheckRequired(data, 1),
         Then(CheckVersion(data),
         Then(CheckCurrency(data),
         Then(CheckItems(data.d["items"].l, 1),
              CheckParties(data.d["parties"].l, 1)))))

validate_data(data) ==
    IF ~Iterable(data) THEN Raise("TypeError", <<"argument is not iterable">>)
    ELSE Then(CheckRequired(data, 1),
         Then(CheckVersion(data),
         Then(CheckCurrency(data),
         Then(CheckParties(data.d["parties"].l, 1),
              CheckItems(data.d["items"].l, 1)))))

(***************************************************************************)
(* generate_edi_segments.                                                  *)
(***************************************************************************)
Currency(data) == DictGet(data, "currency", Str(<<"E", "U", "R">>))

\* the first exception of the header's f-strings, in evaluation order
HeaderExc(data) ==
    IF Subscript(data, "message_ref") # "none"
    THEN Raise(Subscript(data, "message_ref"), <<"'message_ref'">>)
    ELSE IF ~Has(data, "edifact_version") THEN Raise("KeyError", <<"'edifact_version'">>)
    ELSE IF data.d["edifact_version"].ty # "str"
    THEN Raise("AttributeError", <<"object has no attribute 'upper'">>)
    ELSE IF ~Has(data, "doc_code") THEN Raise("KeyError", <<"'doc_code'">>)
    ELSE IF ~Has(data, "doc_number") THEN Raise("KeyError", <<"'doc_number'">>)
    ELSE Returned

Header(data, today) ==
    << UNA_SEGMENT,
       <<"UNH+">> \o PyStr(data.d["message_ref"]) \o <<"+PRICAT:">>
           \o Upper(data.d["edifact_version"].s) \o <<"'">>,
       <<"BGM+">> \o PyStr(data.d["doc_code"]) \o <<"+">> \o PyStr(data.d["doc_number"])
           \o <<"+9", "'">>,
       <<"DTM+137:">> \o today \o <<":102", "'">>,
       <<"CUX+2:">> \o PyStr(Currency(data)) \o <<":9", "'">>,
       <<"RFF+ON:">> \o PyStr(data.d["doc_number"]) \o <<"'">> >>

\* the elements a for loop visits; a str or a dict of the model that is not
\* empty yields elements that cannot be subscripted by a key
Elements(v) == IF v.ty = "list" THEN v.l ELSE IF Truthy(v) THEN <<None>> ELSE <<>>

NAD(party) ==
    <<"NAD+">> \o PyStr(party.d["qualifier"]) \o <<"+">> \o PyStr(party.d["id"])
        \o <<"::91", "'">>

RECURSIVE PartyLoop(_, _, _)
PartyLoop(parties, i, segments) ==
    IF i > Len(parties) THEN [Returned EXCEPT !.segments = segments]
    ELSE IF Subscript(parties[i], "qualifier") # "none"
    THEN Raise(Subscript(parties[i], "qualifier"), <<"'qualifier'">>)
    ELSE IF Subscript(parties[i], "id") # "none"
    THEN Raise(Subscript(parties[i], "id"), <<"'id'">>)
    ELSE PartyLoop(parties, i + 1, Append(segments, NAD(parties[i])))

PRI(qualifier, price) == <<"PRI+", qualifier, ":">> \o Format2f(price) \o <<":UP", "'">>

QTY(item) ==
    <<"QTY+47:">> \o PyStr(item.d["quantity"]) \o <<":">>
        \o PyStr(DictGet(item, "unit", Str(<<"P", "C", "E">>))) \o <<"'">>

\* a variant of the segments of an item in which the quantity segment is
\* appended before the price segments
ItemSegmentsQtyFirst(item, index, price) ==
    << <<"LIN+">> \o IntStr(index) \o <<"++">> \o PyStr(item.d["product_code"]) \o <<":EN", "'">>,
       <<"IMD+F++:::">> \o escape_edifact(item.d["description"].s) \o <<"'">> >>
    \o (IF Has(item, "quantity") THEN <<QTY(item)>> ELSE <<>>)
    \o << PRI("AAA", price), PRI("AAB", price) >>

\* the segments of an item whose price is accepted
ItemSegments(item, index, price) ==
    << <<"LIN+">> \o IntStr(index) \o <<"++">> \o PyStr(item.d["product_code"]) \o <<":EN", "'">>,
       <<"IMD+F++:::">> \o escape_edifact(item.d["description"].s) \o <<"'">>,
       PRI("AAA", price),
       PRI("AAB", price) >>
    \o (IF Has(item, "quantity") THEN <<QTY(item)>> ELSE <<>>)

\* the try block for one item once validate_price has returned vp
Encoded(item, index, vp) ==
    IF vp.exc # "none" THEN vp
    ELSE IF ~Has(item, "description") THEN Raise("KeyError", <<"'description'">>)
    ELSE IF item.d["description"].ty # "str"
    THEN Raise("AttributeError", <<"object has no attribute 'replace'">>)
    ELSE IF ~Has(item, "product_code") THEN Raise("KeyError", <<"'product_code'">>)
    ELSE [vp EXCEPT !.segments = ItemSegments(item, index, vp.dec)]

\* the body of the try block for one item: the segments it appends and the
\* price it adds, or the exception it raises before appending anything
EncodeItem(item, index) ==
    IF Subscript(item, "price") # "none"
    THEN Raise(Subscript(item, "price"), <<"'price'">>)
    ELSE Bind(validate_price(item.d["price"]), LAMBDA vp : Encoded(item, index, vp))

\* the item loop from item index on; acc holds segments, total_amount, item_count
RECURSIVE ItemLoop(_, _, _, _)

\* a variant of the end of one iteration in which item_count is
\* incremented after the try block, so a skipped item is counted
AfterItemCountsSkipped(items, index, strict, acc, step) ==
    IF step.exc = "none"
    THEN ItemLoop(items, index + 1, strict,
                  [acc EXCEPT !.segments = @ \o step.segments,
                              !.total = DecAdd(@, step.dec),
                              !.item_count = @ + 1])
    ELSE IF step.exc \in {"KeyError", PVE}
    THEN IF strict
         THEN Raise(PVE, <<"Invalid item ">> \o IntStr(index) \o <<": ">> \o step.msg)
         ELSE ItemLoop(items, index + 1, strict, [acc EXCEPT !.item_count = @ + 1])
    ELSE step

\* the end of one iteration: step is what the try block did
AfterItem(items, index, strict, acc, step) ==
    IF step.exc = "none"
    THEN ItemLoop(items, index + 1, strict,
                  [acc EXCEPT !.segments = @ \o step.segments,
                              !.total = DecAdd(@, step.dec),
                              !.item_count = @ + 1])
    ELSE IF step.exc \in {"KeyError", PVE}
    THEN IF strict
         THEN Raise(PVE, <<"Invalid item ">> \o IntStr(index) \o <<": ">> \o step.msg)
         ELSE ItemLoop(items, index + 1, strict, acc)
    ELSE step

ItemLoop(items, index, strict, acc) ==
    IF index > Len(items) THEN acc
    ELSE Bind(EncodeItem(items[index], index),
              LAMBDA step : AfterItem(items, index, strict, acc, step))

\* the item loop, entered with the header and party segments nads
ItemsPart(data, strict, nads) ==
    IF nads.exc # "none" THEN nads
    ELSE IF ~Has(data, "items") THEN Raise("KeyError", <<"'items'">>)
    ELSE IF ~Iterable(data.d["items"]) THEN Raise("TypeError", <<"object is not iterable">>)
    ELSE ItemLoop(Elements(data.d["items"]), 1, strict,
                  [nads EXCEPT !.total = Fin(0, <<0>>, -2), !.item_count = 0])

\* the loops over the parties and the items, after the header
Loops(data, strict, today) ==
    IF ~Has(data, "parties") THEN Raise("KeyError", <<"'parties'">>)
    ELSE IF ~Iterable(data.d["parties"]) THEN Raise("TypeError", <<"object is not iterable">>)
    ELSE Bind(PartyLoop(Elements(data.d["parties"]), 1, Header(data, today)),
              LAMBDA nads : ItemsPart(data, strict, nads))

generate_edi_segments(data, strict, today) == Then(HeaderExc(data), Loops(data, strict, today))

(***************************************************************************)
(* generate_pricat and the file system it writes to.                       *)
(***************************************************************************)
LastIndex(cs, c) ==
    IF \E i \in 1..Len(cs) : cs[i] = c
    THEN CHOOSE i \in 1..Len(cs) : cs[i] = c /\ \A j \in (i + 1)..Len(cs) : cs[j] # c
    ELSE 0

\* os.path.splitext(path): the extension starts at the last dot of the last
\* component, unless that component starts with it
Splitext(path) ==
    LET dot == LastIndex(path, ".")
        sep == LastIndex(path, "/")
    IN IF dot > sep + 1
       THEN [base |-> SubSeq(path, 1, dot - 1), ext |-> SubSeq(path, dot, Len(path))]
       ELSE [base |-> path, ext |-> <<>>]

\* os.path.dirname(path) or "."
Dirname(path) ==
    LET sep == LastIndex(path, "/")
    IN IF sep > 1 THEN SubSeq(path, 1, sep - 1) ELSE IF sep = 1 THEN <<"/">> ELSE <<".">>

RECURSIVE Join(_)
Join(segments) ==
    IF segments = <<>> THEN <<>>
    ELSE IF Len(segments) = 1 THEN segments[1]
    ELSE segments[1] \o <<"\n">> \o Join(Tail(segments))

MOA(total_amount, currency) ==
    <<"MOA+86:">> \o Format2f(total_amount) \o <<":">> \o PyStr(currency) \o <<"'">>

UNT(count, data) ==
    <<"UNT+">> \o IntStr(count) \o <<"+">> \o PyStr(data.d["message_ref"]) \o <<"'">>

\* the count generate_pricat writes in the trailer: len(segments) - 1,
\* evaluated before the footer segments are appended
TrailerCount(segments) == Len(segments) - 1

LogLine(level, text) == [level |-> level, text |-> text]

\* what the two except clauses of generate_pricat return for exception e
\* a variant of the except clauses in which only PRICATValidationError is
\* handled: any other exception leaves generate_pricat
CaughtValidationOnly(e, log) ==
    IF e.exc = PVE
    THEN [Returned EXCEPT
            !.log = Append(log, LogLine("ERROR", <<"Validation failed: ">> \o e.msg))]
    ELSE [e EXCEPT !.log = log]

Caught(e, log) ==
    [Returned EXCEPT
       !.log = Append(log,
                 IF e.exc = PVE THEN LogLine("ERROR", <<"Validation failed: ">> \o e.msg)
                 ELSE LogLine("ERROR", <<"Unexpected error generating PRICAT: ">> \o e.msg))]

\* segments.extend([MOA, UNT]) and the join, on the outcome g of the encoder
WithFooter(data, g) ==
    Bind(g.segments \o << MOA(g.total, Currency(data)),
                          UNT(TrailerCount(g.segments), data) >>,
         LAMBDA segments : [g EXCEPT !.segments = segments, !.text = Join(segments)])

\* the path written: filename, or filename with the timestamp before its
\* extension when it exists and overwrite is not asked for
Target(path, overwrite, stamp, filesys) ==
    IF (path \in DOMAIN filesys.files \/ path \in filesys.dirs) /\ ~overwrite
    THEN Splitext(path).base \o <<"_">> \o stamp \o Splitext(path).ext
    ELSE path

PutFile(filesys, target, content) ==
    [filesys EXCEPT !.files = [p \in DOMAIN @ \cup {target} |->
                                  IF p = target THEN content ELSE @[p]]]

\* makedirs, open, write and the return, for message done and path target.
\* io is the fault the operating system injects into this call: "none",
\* "makedirs", "open" (the file is not opened) or "write" (the file is
\* opened, thereby truncated, and the write fails)
Persist(done, path, target, io, filesys) ==
    LET log1 == IF target # path
                THEN <<LogLine("INFO", <<"File exists, using new filename: ">> \o target)>>
                ELSE <<>>
        made == [filesys EXCEPT !.dirs = @ \cup {Dirname(target)}]
        oserror == Raise("OSError", <<"[Errno]">>)
        logged == Append(log1, LogLine("ERROR", <<"File write error: ">> \o oserror.msg))
    IN IF io = "makedirs" THEN [ret |-> Caught(oserror, log1), fs |-> filesys]
       ELSE IF io = "open" THEN [ret |-> Caught(oserror, logged), fs |-> made]
       ELSE IF io = "write"
       THEN [ret |-> Caught(oserror, logged), fs |-> PutFile(made, target, <<>>)]
       ELSE [ret |-> [done EXCEPT
                        !.log = log1 \o <<LogLine("INFO", <<"PRICAT saved to ">> \o target),
                                          LogLine("INFO", <<"Generated PRICAT">>)>>],
             fs |-> PutFile(made, target, done.text)]

\* generate_pricat after the encoder returned g
Finish(data, filename, overwrite, stamp, io, filesys, g) ==
    IF g.exc # "none" THEN [ret |-> Caught(g, <<>>), fs |-> filesys]
    ELSE Bind(WithFooter(data, g),
              LAMBDA done :
                IF ~Truthy(filename)
                THEN [ret |-> [done EXCEPT !.log = <<LogLine("INFO", <<"Generated PRICAT">>)>>],
                      fs |-> filesys]
                ELSE Bind(Target(filename.s, overwrite, stamp, filesys),
                          LAMBDA target : Persist(done, filename.s, target, io, filesys)))

\* a variant of generate_pricat in which the output file is opened before
\* the record is validated
ValidatedAfterOpen(data, filename, overwrite, today, stamp, io, filesys, v) ==
    IF v.exc # "none"
    THEN [ret |-> Caught(v, <<>>),
          fs |-> IF Truthy(filename) THEN PutFile(filesys, filename.s, <<>>) ELSE filesys]
    ELSE Bind(generate_edi_segments(data, FALSE, today),
              LAMBDA g : Finish(data, filename, overwrite, stamp, io, filesys, g))

\* generate_pricat after validate_data returned or raised v
Validated(data, filename, overwrite, today, stamp, io, filesys, v) ==
    IF v.exc # "none" THEN [ret |-> Caught(v, <<>>), fs |-> filesys]
    ELSE Bind(generate_edi_segments(data, FALSE, today),
              LAMBDA g : Finish(data, filename, overwrite, stamp, io, filesys, g))

generate_pricat(data, filename, overwrite, today, stamp, io, filesys) ==
    Bind(validate_data(data),
         LAMBDA v : Validated(data, filename, overwrite, today, stamp, io, filesys, v))

(***************************************************************************)
(* The inputs the callers of the model supply.                             *)
(***************************************************************************)
MaxText == 3

With(v, k, x) == Dict([key \in DOMAIN v.d \cup {k} |-> IF key = k THEN x ELSE v.d[key]])

Without(v, ks) == Dict([key \in DOMAIN v.d \ ks |-> v.d[key]])

SeqsUpTo(S, n) == UNION {[1..k -> S] : k \in 0..n}

MkItem(code, description, price) ==
    Dict([product_code |-> Str(code), description |-> Str(description), price |-> price])

MkParty(qualifier, id) == Dict([qualifier |-> Str(qualifier), id |-> Str(id)])

HugePrice == <<"5">> \o [i \in 1..25 |-> "0"] \o <<".", "0", "1">>

ItemWidget == MkItem(<<"P", "1">>, <<"W", "i">>, Str(<<"1", "0", ".", "0", "0", "5">>))

ItemGadget == With(MkItem(<<"P", "2">>, <<"G">>, Str(<<"5", ".", "0", "0">>)), "quantity", Int_(3))

ItemQuote ==
    With(With(MkItem(<<"P", "3">>, <<"a", "'", "b">>, Int_(7)), "quantity", Int_(2)),
         "unit", Str(<<"K", "G">>))

ItemNoPrice == Without(MkItem(<<"P", "4">>, <<"N">>, None), {"price"})

ItemBadPrice == MkItem(<<"P", "5">>, <<"B">>, Str(<<"a", "b", "c">>))

ItemNegPrice == MkItem(<<"P", "6">>, <<"M">>, Str(<<"-", "0", ".", "0", "1">>))

ItemTinyNeg == MkItem(<<"P", "7">>, <<"T">>, Str(<<"-", "0", ".", "0", "0", "4">>))

ItemHuge == MkItem(<<"P", "8">>, <<"H">>, Str(HugePrice))

ItemQtyZero == With(MkItem(<<"P", "9">>, <<"Z">>, Int_(1)), "quantity", Int_(0))

ItemNoDescription == Without(MkItem(<<"P", "A">>, <<>>, Int_(2)), {"description"})

ItemUnitQuote ==
    With(With(MkItem(<<"P", "B">>, <<"U">>, Str(<<"0", ".", "5">>)), "quantity", Int_(1)),
         "unit", Str(<<"'">>))

ItemPool ==
    { ItemWidget, ItemGadget, ItemQuote, ItemNoPrice, ItemBadPrice, ItemNegPrice,
      ItemTinyNeg, ItemHuge, ItemQtyZero, ItemNoDescription, ItemUnitQuote, Int_(5) }

PartyBuyer == MkParty(<<"B", "Y">>, <<"B", "1">>)

PartySupplier == MkParty(<<"S", "U">>, <<"S", "'">>)

PartyPool ==
    { PartyBuyer, PartySupplier, MkParty(<<"X", "X">>, <<"B", "2">>),
      MkParty(<<"S", "E">>, <<>>), Without(PartyBuyer, {"id"}), Int_(5) }

D96A == <<"D", ":", "9", "6", "A", ":", "U", "N">>

\* the example payload of the module, with the items and the party of the
\* specification's end-to-end scenario
BaseRecord ==
    Dict([message_ref |-> Str(<<"M", "1">>),
          doc_code |-> Str(<<"9">>),
          doc_number |-> Str(<<"D", "1">>),
          currency |-> Str(<<"E", "U", "R">>),
          edifact_version |-> Str(D96A),
          parties |-> List(<<PartyBuyer>>),
          items |-> List(<<ItemWidget, ItemGadget>>)])

RequiredKeys == {required_fields[i].field : i \in 1..Len(required_fields)}

Records ==
    {With(BaseRecord, "items", List(l)) : l \in SeqsUpTo(ItemPool, MaxItems)}
    \cup {With(BaseRecord, "parties", List(l)) : l \in SeqsUpTo(PartyPool, MaxParties)}
    \cup {Without(BaseRecord, ks) : ks \in SUBSET (RequiredKeys \cup {"currency"})}
    \cup {With(BaseRecord, k, Int_(5)) : k \in RequiredKeys \cup {"currency"}}
    \cup {With(BaseRecord, k, Str(<<>>)) : k \in RequiredKeys}
    \cup {With(BaseRecord, "message_ref", Str(<<"M", "'">>)),
          With(BaseRecord, "doc_number", Str(<<"D", "'", "+">>)),
          With(BaseRecord, "edifact_version", Str(<<"d", ":", "9", "6", "a", ":", "u", "n">>)),
          With(BaseRecord, "edifact_version", Str(D96A \o <<"\n">>)),
          With(BaseRecord, "edifact_version", Str(<<"D", "9", "6", "A">>)),
          With(BaseRecord, "currency", Str(<<"U", "S", "D">>)),
          With(BaseRecord, "currency", Str(<<"X", "X", "X">>)),
          With(BaseRecord, "currency", List(<<>>)),
          None}
    \cup {With(With(With(BaseRecord, "currency", Str(c)), "parties", List(<<pa>>)),
               "items", List(<<it>>)) :
            c \in {<<"E", "U", "R">>, <<"X", "X", "X">>},
            pa \in {PartyBuyer, MkParty(<<"X", "X">>, <<"B", "2">>)},
            it \in {ItemGadget, ItemNegPrice, ItemQtyZero}}

PriceInputs ==
    {Str(s) : s \in { <<"1", ".", "0", "0", "5">>, <<"1", ".", "0", "0", "4">>,
                      <<"1", ".", "0", "1", "5">>, <<"2", ".", "5">>, <<"0">>, <<"7", ".", "1", "0">>,
                      <<"-", "0", ".", "0", "1">>, <<"-", "0", ".", "0", "0", "4">>,
                      <<"-", "0", ".", "0", "0", "5">>, <<"-", "3", "e", "3", "0">>,
                      <<"-", "1", "e", "-", "9">>, <<"a", "b", "c">>, <<>>, <<"1", "e", "2", "6">>,
                      <<"1", "e", "2", "5">>, <<"N", "a", "N">>, <<"-", "I", "n", "f">>,
                      <<"1", ".", "2", ".", "3">>, HugePrice }}
    \cup {Int_(n) : n \in {0, 5, 12, -3}}
    \cup {None}

TextInputs == {Str(t) : t \in SeqsUpTo({"a", "'", "?"}, MaxText)}

OutPath == <<"out", ".", "edi">>

DirPath == <<"output", "/", "out", ".", "edi">>

Filenames == {None, Str(<<>>), Str(OutPath), Str(DirPath)}

Dates == {<<"20261101">>, <<"20261231">>}

Stamps == {<<"20261101_120000">>}

IoFaults == {"none", "makedirs", "open", "write"}

OldContent == <<"old">>

\* the file systems a call may find
PreFs ==
    { [files |-> <<>>, dirs |-> {<<".">>}],
      [files |-> [p \in {OutPath} |-> OldContent], dirs |-> {<<".">>}],
      [files |-> [p \in {OutPath, DirPath} |-> OldContent], dirs |-> {<<".">>, <<"output">>}] }

(***************************************************************************)
(* The state machine: a caller makes one call of one function of the       *)
(* module at a time; between calls the environment prepares the file       *)
(* system.  fn, arg, strict, filename, overwrite are the call made, fs0    *)
(* the file system the call found, fs the file system, ret the outcome.    *)
(***************************************************************************)
VARIABLES pc, fn, arg, strict, filename, overwrite, fs0, fs, ret

vars == <<pc, fn, arg, strict, filename, overwrite, fs0, fs, ret>>

Init ==
    /\ pc = "idle"
    /\ fn = "none"
    /\ arg = None
    /\ strict = FALSE
    /\ filename = None
    /\ overwrite = FALSE
    /\ fs \in PreFs
    /\ fs0 = fs
    /\ ret = Returned

CallEscapeEdifact ==
    /\ pc = "idle"
    /\ \E t \in TextInputs :
          /\ arg' = t
          /\ ret' = [Returned EXCEPT !.text = escape_edifact(t.s)]
    /\ fn' = "escape_edifact"
    /\ pc' = "returned"
    /\ fs0' = fs
    /\ UNCHANGED <<strict, filename, overwrite, fs>>

CallValidatePrice ==
    /\ pc = "idle"
    /\ \E p \in PriceInputs :
          /\ arg' = p
          /\ ret' = validate_price(p)
    /\ fn' = "validate_price"
    /\ pc' = "returned"
    /\ fs0' = fs
    /\ UNCHANGED <<strict, filename, overwrite, fs>>

CallValidateData ==
    /\ pc = "idle"
    /\ \E data \in Records :
          /\ arg' = data
          /\ ret' = validate_data(data)
    /\ fn' = "validate_data"
    /\ pc' = "returned"
    /\ fs0' = fs
    /\ UNCHANGED <<strict, filename, overwrite, fs>>

CallGenerateEdiSegments ==
    /\ pc = "idle"
    /\ \E data \in Records, st \in BOOLEAN, today \in Dates :
          /\ arg' = data
          /\ strict' = st
          /\ ret' = generate_edi_segments(data, st, today)
    /\ fn' = "generate_edi_segments"
    /\ pc' = "returned"
    /\ fs0' = fs
    /\ UNCHANGED <<filename, overwrite, fs>>

CallGeneratePricat ==
    /\ pc = "idle"
    /\ \E data \in Records, f \in Filenames, ow \in BOOLEAN,
          today \in Dates, stamp \in Stamps, io \in IoFaults :
          \E r \in {generate_pricat(data, f, ow, today, stamp, io, fs)} :
             /\ arg' = data
             /\ filename' = f
             /\ overwrite' = ow
             /\ ret' = r.ret
             /\ fs' = r.fs
    /\ fn' = "generate_pricat"
    /\ pc' = "returned"
    /\ fs0' = fs
    /\ strict' = FALSE

\* the caller drops the outcome; the environment prepares the next file system
Reset ==
    /\ pc = "returned"
    /\ pc' = "idle"
    /\ fn' = "none"
    /\ arg' = None
    /\ strict' = FALSE
    /\ filename' = None
    /\ overwrite' = FALSE
    /\ fs' \in PreFs
    /\ fs0' = fs'
    /\ ret' = Returned

Next ==
    \/ CallEscapeEdifact
    \/ CallValidatePrice
    \/ CallValidateData
    \/ CallGenerateEdiSegments
    \/ CallGeneratePricat
    \/ Reset

Spec == Init /\ [][Next]_vars

(***************************************************************************)
(* Reading a produced message back.                                        *)
(***************************************************************************)
Called(f) == pc = "returned" /\ fn = f

\* generate_pricat returned a message
Produced == Called("generate_pricat") /\ ret.text # <<>>

Last(seq) == seq[Len(seq)]

\* the data tokens of segment seg from position from up to the next token in stop
Field(seg, from, stop) == SubSeq(seg, from, from + FirstIn(SubSeq(seg, from, Len(seg)), stop) - 2)

\* the segment count an UNT segment carries
WrittenCount(unt) == DigitsToNat(Field(unt, 2, {"+"}))

\* an amount rendered with 2 fraction digits, as a number of hundredths
Hundredths(text) ==
    LET ds == SelectSeq(text, LAMBDA c : c \in DigitChars)
    IN StripZeros([i \in 1..Len(ds) |-> DigitVal(ds[i])])

IsNetPrice(seg) == seg[1] = "PRI+" /\ seg[2] = "AAA"

\* the exact sum, in hundredths, of the amounts of the PRI+AAA segments
RECURSIVE SumNetPrices(_, _)
SumNetPrices(segments, n) ==
    IF n = 0 THEN <<0>>
    ELSE IF IsNetPrice(segments[n])
    THEN AddDigits(SumNetPrices(segments, n - 1), Hundredths(Field(segments[n], 4, {":UP"})))
    ELSE SumNetPrices(segments, n - 1)

ItemsOf(data) == data.d["items"].l

RemoveAt(seq, k) == SubSeq(seq, 1, k - 1) \o SubSeq(seq, k + 1, Len(seq))

\* data is a record whose only defect is that item k has no price
LacksOnlyPrice(data, k) ==
    /\ data.ty = "dict"
    /\ Has(data, "items")
    /\ data.d["items"].ty = "list"
    /\ k \in 1..Len(ItemsOf(data))
    /\ ItemsOf(data)[k].ty = "dict"
    /\ ~Has(ItemsOf(data)[k], "price")
    /\ validate_data(With(data, "items",
                          List([ItemsOf(data) EXCEPT ![k] = With(@, "price", Int_(1))]))).exc = "none"

\* the item segments of a message that holds a block for every item but item k
RECURSIVE BlocksBut(_, _, _)
BlocksBut(items, k, n) ==
    IF n = 0 THEN <<>>
    ELSE IF n = k THEN BlocksBut(items, k, n - 1)
    ELSE BlocksBut(items, k, n - 1)
         \o ItemSegments(items[n], n, validate_price(items[n].d["price"]).dec)

\* the segments that follow the header and the party segments
ItemPart(data, segments) ==
    SubSeq(segments, Len(Header(data, <<>>)) + Len(data.d["parties"].l) + 1, Len(segments))

(***************************************************************************)
(* C1.  For every record that passes validation, the segment count in the  *)
(* trailer (UNT) equals the number of segments emitted from the header     *)
(* (UNH) through the monetary total (MOA) inclusive: every segment of the  *)
(* message but the first (UNA) and the trailer itself.                     *)
(* The code counts before it appends MOA, so the count is one short.       *)
(***************************************************************************)
C1_TrailerCountsThroughMOA ==
    Produced => WrittenCount(Last(ret.segments)) = Len(ret.segments) - 2

(***************************************************************************)
(* C2.  When validation and encoding succeed and writing the file fails    *)
(* with an OSError, generate_pricat propagates the failure: it raises, and *)
(* does not return the empty string.                                       *)
(* The re-raised OSError is caught by the outer except Exception.          *)
(***************************************************************************)
WriteFailed ==
    /\ Called("generate_pricat")
    /\ \E i \in 1..Len(ret.log) : ret.log[i].text[1] = "File write error: "

C2_WriteFailurePropagates == WriteFailed => ret.exc = "OSError"

C4_EscapeKeepsTerminator ==
    Called("escape_edifact") => ret.text = Replace(arg.s, "'", <<"?", "'">>)

(***************************************************************************)
(* C5.  Whenever generate_edi_segments returns, its total is the exact sum *)
(* of the amounts rendered in the PRI+AAA segments, and the MOA amount of  *)
(* generate_pricat is that sum with 2 fraction digits.                     *)
(* The total is summed under the 28-digit decimal context, which rounds a  *)
(* sum of more than 28 digits.                                             *)
(***************************************************************************)
C5_TotalIsSumOfRenderedPrices ==
    /\ (Called("generate_edi_segments") /\ ret.exc = "none") =>
          Hundredths(Format2f(ret.total)) = SumNetPrices(ret.segments, Len(ret.segments))
    /\ Produced =>
          Hundredths(Field(ret.segments[Len(ret.segments) - 1], 2, {":"}))
              = SumNetPrices(ret.segments, Len(ret.segments))

(***************************************************************************)
(* C6.  For every non-negative decimal input, validate_price returns the   *)
(* value rounded half-up to 2 fraction digits.                             *)
(* A value of 10^26 or more is rejected: its quantized coefficient does    *)
(* not fit the 28 digits of the decimal context.                           *)
(***************************************************************************)
\* the decimal the text of price denotes is finite and not below zero
NonNegativeDecimal(price) ==
    LET d == ParseDecimal(PyStr(price))
    IN d.kind = "fin" /\ (d.sign = 0 \/ IsZero(d))

C6_RoundsEveryNonNegative ==
    (Called("validate_price") /\ NonNegativeDecimal(arg)) =>
        /\ ret.exc = "none"
        /\ ret.dec.digits = RescaleHalfUp(ParseDecimal(PyStr(arg))).digits
        /\ ret.dec.exp = -2

(***************************************************************************)
(* C7, as claimed.  A negative price and a non-numeric input fail with the *)
(* same kind, and the message of both carries the raw input:               *)
(* "Invalid price value: <value>".                                         *)
(***************************************************************************)
C7_EveryFailureCarriesValue ==
    (Called("validate_price") /\ ret.exc # "none") =>
        /\ ret.exc = PVE
        /\ ret.msg = <<"Invalid price value: ">> \o PyStr(arg)

(***************************************************************************)
(* C7, amended.  A negative price and a non-numeric input fail with the    *)
(* same kind, PRICATValidationError.  An input that is not a number, or    *)
(* whose rounding does not fit 28 digits, fails with "Invalid price value: *)
(* <value>", the raw input; a price that rounds below zero fails with the  *)
(* fixed message "Price cannot be negative", which does not carry it.      *)
(***************************************************************************)
C7_FailureKindAndMessage ==
    (Called("validate_price") /\ ret.exc # "none") =>
        /\ ret.exc = PVE
        /\ ret.msg = IF QuantizeHalfUp(ParseDecimal(PyStr(arg))).kind = "fin"
                     THEN <<"Price cannot be negative">>
                     ELSE <<"Invalid price value: ">> \o PyStr(arg)

C7_Witness ==
    /\ Called("validate_price")
    /\ ParseDecimal(PyStr(arg)).sign = 1
    /\ ret.exc = PVE
    /\ ret.msg = <<"Price cannot be negative">>

(***************************************************************************)
(* C8.  Every price below zero, whatever its magnitude, is rejected by     *)
(* validate_price, and validate_data rejects the record that holds it.     *)
(* The sign is checked after rounding: -0.004 rounds to -0.00 and passes.  *)
(***************************************************************************)
BelowZero(price) ==
    LET d == ParseDecimal(PyStr(price))
    IN d.kind = "fin" /\ d.sign = 1 /\ ~IsZero(d)

C8_NegativePriceRejected ==
    /\ (Called("validate_price") /\ BelowZero(arg)) => ret.exc = PVE
    /\ (Called("validate_data") /\ arg = With(BaseRecord, "items", List(<<ItemTinyNeg>>))) =>
          ret.exc = PVE

(***************************************************************************)
(* C9.  A record that lacks message_ref, doc_code, doc_number, parties or  *)
(* items makes generate_pricat return the empty string and write nothing:  *)
(* no file or directory is created or modified, whatever the filename and  *)
(* the overwrite flag.                                                     *)
(***************************************************************************)
TopLevelFields == {"message_ref", "doc_code", "doc_number", "parties", "items"}

LacksTopLevelField(data) == data.ty = "dict" /\ \E k \in TopLevelFields : ~Has(data, k)

LacksOnlyVersion(data) ==
    /\ data.ty = "dict"
    /\ ~Has(data, "edifact_version")
    /\ validate_data(With(data, "edifact_version", Str(D96A))).exc = "none"

C10_DefaultVersion ==
    (Called("generate_pricat") /\ LacksOnlyVersion(arg)) =>
        /\ ret.text # <<>>
        /\ ret.segments[2] = <<"UNH+">> \o PyStr(arg.d["message_ref"])
                               \o <<"+PRICAT:">> \o D96A \o <<"'">>

(***************************************************************************)
(* C11.  Every record validate_data accepts has a non-empty message_ref:   *)
(* a record whose message_ref is the empty string is rejected, and the     *)
(* header of a produced message never carries an empty reference.          *)
(* The required-field loop tests emptiness of lists only.                  *)
(***************************************************************************)
C11_EmptyMessageRefRejected ==
    /\ (Called("validate_data") /\ arg.ty = "dict" /\ Has(arg, "message_ref")
          /\ arg.d["message_ref"] = Str(<<>>)) => ret.exc = PVE
    /\ Produced => Field(ret.segments[2], 2, {"+PRICAT:"}) # <<>>

(***************************************************************************)
(* The rules of validation, each taken on its own: the reasons of all the  *)
(* rules a record violates, in the fixed check order.                      *)
(***************************************************************************)
FieldViolation(data, i) ==
    LET f == required_fields[i].field
        t == required_fields[i].type
    IN IF ~Has(data, f) THEN << <<"Missing required field: ", f>> >>
       ELSE IF data.d[f].ty # t THEN << <<"Field ", f, " must be ", t>> >>
       ELSE IF t = "list" /\ data.d[f].l = <<>> THEN << <<"Field ", f, " cannot be empty">> >>
       ELSE <<>>

RECURSIVE FieldViolations(_, _)
FieldViolations(data, n) ==
    IF n = 0 THEN <<>> ELSE FieldViolations(data, n - 1) \o FieldViolation(data, n)

VersionViolation(data) ==
    IF Has(data, "edifact_version") /\ data.d["edifact_version"].ty = "str"
       /\ ~VersionMatches(Upper(data.d["edifact_version"].s))
    THEN << <<"Invalid EDIFACT version format">> >>
    ELSE <<>>

CurrencyViolation(data) ==
    IF Has(data, "currency") /\ Hashable(data.d["currency"])
       /\ ~(data.d["currency"].ty = "str" /\ data.d["currency"].s \in VALID_CURRENCIES)
    THEN << <<"Invalid currency code: ">> \o PyStr(data.d["currency"])
              \o <<". Must be one of ", "{valid_currencies}">> >>
    ELSE <<>>

PartyViolation(party) ==
    IF party.ty # "dict" THEN <<>>
    ELSE IF ~(Has(party, "qualifier") /\ Has(party, "id"))
    THEN << <<"Each party must have 'qualifier' and 'id'">> >>
    ELSE (IF Hashable(party.d["qualifier"])
             /\ ~(party.d["qualifier"].ty = "str" /\ party.d["qualifier"].s \in VALID_QUALIFIERS)
          THEN << <<"Invalid party qualifier: ">> \o PyStr(party.d["qualifier"]) >>
          ELSE <<>>)
         \o (IF party.d["id"].ty # "str" \/ party.d["id"].s = <<>>
             THEN << <<"Party ID must be a non-empty string">> >>
             ELSE <<>>)

ItemViolation(item) ==
    IF item.ty # "dict" THEN <<>>
    ELSE IF ~({"product_code", "description", "price"} \subseteq DOMAIN item.d)
    THEN << <<"Each item requires product_code, description, and price">> >>
    ELSE (IF item.d["product_code"].ty # "str" \/ item.d["product_code"].s = <<>>
          THEN << <<"Product code must be a non-empty string">> >> ELSE <<>>)
         \o (IF item.d["description"].ty # "str" \/ item.d["description"].s = <<>>
             THEN << <<"Description must be a non-empty string">> >> ELSE <<>>)
         \o (IF validate_price(item.d["price"]).exc = PVE
             THEN << validate_price(item.d["price"]).msg >> ELSE <<>>)
         \o (IF Has(item, "quantity")
                /\ ~(item.d["quantity"].ty = "int" /\ item.d["quantity"].n > 0)
             THEN << <<"Quantity must be a positive number">> >> ELSE <<>>)

RECURSIVE PartyViolations(_, _)
PartyViolations(list, n) ==
    IF n = 0 THEN <<>> ELSE PartyViolations(list, n - 1) \o PartyViolation(list[n])

RECURSIVE ItemViolations(_, _)
ItemViolations(list, n) ==
    IF n = 0 THEN <<>> ELSE ItemViolations(list, n - 1) \o ItemViolation(list[n])

Violations(data) ==
    FieldViolations(data, Len(required_fields))
    \o VersionViolation(data)
    \o CurrencyViolation(data)
    \o (IF Has(data, "parties") /\ data.d["parties"].ty = "list"
        THEN PartyViolations(data.d["parties"].l, Len(data.d["parties"].l)) ELSE <<>>)
    \o (IF Has(data, "items") /\ data.d["items"].ty = "list"
        THEN ItemViolations(data.d["items"].l, Len(data.d["items"].l)) ELSE <<>>)

(***************************************************************************)
(* C12.  validate_data reports exactly one failure reason: for a record    *)
(* that violates several rules it is the reason of the first violated rule *)
(* in the fixed check order (required fields in the order message_ref,     *)
(* doc_code, doc_number, parties, items, edifact_version; the version      *)
(* pattern; the currency; each party in input order; each item in input    *)
(* order), and a record that violates no rule is accepted.                 *)
(***************************************************************************)
C12_FirstViolationReported ==
    (Called("validate_data") /\ arg.ty = "dict" /\ ret.exc # "TypeError") =>
        IF Violations(arg) = <<>> THEN ret.exc = "none"
        ELSE ret.exc = PVE /\ ret.msg = Head(Violations(arg))

C12_Witness ==
    /\ Called("validate_data")
    /\ arg.ty = "dict"
    /\ Len(Violations(arg)) >= 3
    /\ CurrencyViolation(arg) # <<>>
    /\ ret.exc = PVE
    /\ ret.msg = Head(CurrencyViolation(arg))

(***************************************************************************)
(* The kind of a segment: its tag, and what tells two segments of the tag  *)
(* apart (the number of a LIN segment, the whole of a NAD segment).        *)
(***************************************************************************)
Kind(tag, key) == [tag |-> tag, key |-> key]

KindOf(seg) ==
    IF seg[1] = "PRI+" THEN Kind(<<seg[1], seg[2]>>, <<>>)
    ELSE IF seg[1] = "LIN+" THEN Kind(<<seg[1]>>, Field(seg, 2, {"++"}))
    ELSE IF seg[1] = "NAD+" THEN Kind(<<seg[1]>>, seg)
    ELSE Kind(<<seg[1]>>, <<>>)

PartyKind(party) ==
    Kind(<<"NAD+">>, <<"NAD+">> \o party.d["qualifier"].s \o <<"+">> \o party.d["id"].s
                        \o <<"::91", "'">>)

ItemKinds(item, n) ==
    << Kind(<<"LIN+">>, IntStr(n)), Kind(<<"IMD+F++:::">>, <<>>),
       Kind(<<"PRI+", "AAA">>, <<>>), Kind(<<"PRI+", "AAB">>, <<>>) >>
    \o (IF Has(item, "quantity") THEN <<Kind(<<"QTY+47:">>, <<>>)>> ELSE <<>>)

RECURSIVE ItemsKinds(_, _)
ItemsKinds(items, n) ==
    IF n = 0 THEN <<>> ELSE ItemsKinds(items, n - 1) \o ItemKinds(items[n], n)

\* the kinds of the segments of the message of record data, in order
MessageKinds(data) ==
    << Kind(<<"UNA:+.? ">>, <<>>), Kind(<<"UNH+">>, <<>>), Kind(<<"BGM+">>, <<>>),
       Kind(<<"DTM+137:">>, <<>>), Kind(<<"CUX+2:">>, <<>>), Kind(<<"RFF+ON:">>, <<>>) >>
    \o [i \in 1..Len(data.d["parties"].l) |-> PartyKind(data.d["parties"].l[i])]
    \o ItemsKinds(ItemsOf(data), Len(ItemsOf(data)))
    \o << Kind(<<"MOA+86:">>, <<>>), Kind(<<"UNT+">>, <<>>) >>

(***************************************************************************)
(* C13.  The segments of every message generate_pricat produces are, in    *)
(* this order: UNA, UNH, BGM, DTM, CUX, RFF, one NAD per party in input    *)
(* order, for each item in input order the block LIN, IMD, PRI+AAA,        *)
(* PRI+AAB followed by QTY if and only if the item supplies quantity,      *)
(* then MOA, then UNT; no other segment is emitted, and the text is the    *)
(* segments one per line.                                                  *)
(***************************************************************************)
C13_SegmentOrder ==
    Produced =>
        /\ [i \in 1..Len(ret.segments) |-> KindOf(ret.segments[i])] = MessageKinds(arg)
        /\ ret.text = Join(ret.segments)

C13_Witness ==
    /\ Produced
    /\ Len(arg.d["parties"].l) = 2
    /\ arg.d["parties"].l[1] # arg.d["parties"].l[2]
    /\ KindOf(ret.segments[7]) = PartyKind(arg.d["parties"].l[1])
    /\ KindOf(ret.segments[8]) = PartyKind(arg.d["parties"].l[2])

(***************************************************************************)
(* C14.  A failure inside generate_pricat that is neither a validation     *)
(* failure nor a persistence failure (a record of unexpected shape makes   *)
(* validation raise an error that is not PRICATValidationError) is caught: *)
(* generate_pricat returns the empty string, logs the unexpected error,    *)
(* and no exception leaves it.                                             *)
(***************************************************************************)
UnexpectedShape(data) == validate_data(data).exc \notin {"none", PVE}

C14_UnexpectedFailureCaught ==
    (Called("generate_pricat") /\ UnexpectedShape(arg)) =>
        /\ ret.exc = "none"
        /\ ret.text = <<>>
        /\ Len(ret.log) = 1
        /\ ret.log[1].text[1] = "Unexpected error generating PRICAT: "

C14_Witness ==
    /\ Called("generate_pricat")
    /\ arg.ty = "dict"
    /\ validate_data(arg).exc = "TypeError"
    /\ ret.exc = "none"
    /\ ret.text = <<>>

(***************************************************************************)
(* C15.  In every message generate_pricat produces, each segment holds the *)
(* terminator ' exactly once, as its last character, whatever the strings  *)
(* message_ref, doc_code, doc_number, party id, product_code, description  *)
(* and unit that validation accepts.                                       *)
(* Only the description goes through escape_edifact.                       *)
(***************************************************************************)
Terminators(seg) == Len(SelectSeq(seg, LAMBDA c : c = "'"))

C15_OneTerminatorPerSegment ==
    Produced =>
        \A i \in 1..Len(ret.segments) :
            Terminators(ret.segments[i]) = 1 /\ Last(ret.segments[i]) = "'"

(***************************************************************************)
(* C16.  For every record validate_data accepts, generate_edi_segments     *)
(* accepts every item: it raises nothing in either mode, item_count is the *)
(* number of input items, and so is the item_count of the message          *)
(* generate_pricat produces.  A skipped item or a strict abort occurs only *)
(* when generate_edi_segments is called on a record validate_data rejects. *)
(***************************************************************************)
C16_ValidatedItemsAllAccepted ==
    /\ (Called("generate_edi_segments") /\ validate_data(arg).exc = "none") =>
          ret.exc = "none" /\ ret.item_count = Len(ItemsOf(arg))
    /\ Produced => ret.item_count = Len(ItemsOf(arg))

C16_Witness ==
    /\ Called("generate_edi_segments")
    /\ strict
    /\ validate_data(arg).exc = "none"
    /\ Len(ItemsOf(arg)) = MaxItems
    /\ ret.item_count = MaxItems

=============================================================================
